---- MODULE Spec2Model ----
(***************************************************************************)
(* A state-machine model of the ride-hailing dispatch backend:             *)
(* the durable rows (drivers, rides, trips, payments), the Redis keys      *)
(* (geo index, driver locks, idempotency store, demand counter), and the   *)
(* request handlers and background matching tasks that act on them.  Every *)
(* await on the record store or on Redis in the source is a point where    *)
(* another task may run, so a handler is a sequence of steps (its pc).     *)
(* Statements that run under row locks this transaction already holds are  *)
(* one step: no other transaction can write those rows in between.         *)
(***************************************************************************)
EXTENDS Integers, Sequences, FiniteSets, TLC

(* ------------------------------ bounds -------------------------------- *)
NumDrivers == 1        \* drivers registered when the lifecycle specification starts
MatchDrivers == 2      \* drivers online when the matching specifications start
MaxMatchers == 2
MaxCreates == 2
MaxEnds == 2
MaxPays == 2
NumKeys == 1
MaxDist == 1
MaxFareDist == 8
MaxChargeAmount == 2
MaxDemand == 27
MaxSupply == 8
MaxCeiling == 12
MaxEstimateDist == 4
MaxGets == 2
NearDrivers == 22      \* standard drivers when the candidate specification starts
PremiumDrivers == 2    \* premium drivers then

Keys == 1..NumKeys
Matchers == 1..MaxMatchers
CreateIds == 1..MaxCreates
EndIds == 1..MaxEnds
GetIds == 1..MaxGets
PayIds == 1..MaxPays

(* Python's None, SQL NULL, an absent Redis key.  Row ids, keys and        *)
(* provider references are positive, so 0 is free to stand for it.         *)
None == 0
(* NULL in a trip's fare columns, where 0.00 is a fare *)
NoFare == -1

(* settings.matching_max_retries, and charge's range(1, 4) *)
matching_max_retries == 3
(* settings.matching_radius_km = 5.0, in units of 250 m *)
matching_radius_km == 20
ChargeAttempts == 3

(* settings.max_surge_multiplier, in hundredths *)
max_surge_multiplier == 500
Settings(ceiling) == [max_surge_multiplier |-> ceiling]

(* ------------------------------ state --------------------------------- *)
VARIABLES
    drivers,     \* drivers table: driver id -> status
    rowLock,     \* driver rows locked FOR UPDATE: driver id -> matcher whose transaction holds it
    rides,       \* rides table: sequence of rows, ride id = index
    trips,       \* trips table: sequence of rows, trip id = index
    payments,    \* payments table: sequence of rows, payment id = index
    geo,         \* Redis drivers:geo:{tier}: the members of the geo set
    tierKey,     \* Redis driver:{id}:tier: the drivers whose tier is cached
    locks,       \* Redis driver:{id}:lock: driver id -> the ride id stored, or None
    idem,        \* Redis idempotency:{key}: key -> stored entry
    demand,      \* Redis surge:demand:{tier}
    psp,         \* the provider's ledger: one entry per successful _call_psp
    creq,        \* create_ride requests in flight
    matcher,     \* run_matching tasks
    ereq,        \* end_trip requests in flight
    preq,        \* create_payment requests in flight
    out,         \* the response sent by the step just taken (NoOut when none was)
    observe,     \* whether this run records responses in out
    settings,    \* get_settings(): the configuration the process runs with
    cache,       \* Redis ride:{id}:status: pairs <<ride id, status cached>>
    greq,        \* get_ride requests in flight
    loc          \* Redis driver:{id}:loc (30 s): the drivers whose key is live

vars == <<drivers, rowLock, rides, trips, payments, geo, tierKey, locks, idem,
          demand, psp, creq, matcher, ereq, preq, out, observe, settings,
          cache, greq, loc>>

Drivers == DOMAIN drivers
RideIds == 1..Len(rides)
TripIds == 1..Len(trips)
PaymentIds == 1..Len(payments)

(* --------------------------- rows and bodies -------------------------- *)
NoOut == [op |-> "none", code |-> 0, body |-> [detail |-> ""], replay |-> FALSE]
NoEntry == [status_code |-> 0, body |-> <<>>]

NoEstimate == [min |-> NoFare, max |-> NoFare]
IdleCreate == [pc |-> "idle", key |-> None, ride |-> None, tier |-> "standard",
               distance_km |-> 0, estimated_fare |-> NoEstimate]
DoneCreate == [IdleCreate EXCEPT !.pc = "done"]
IdleMatcher == [pc |-> "idle", ride |-> None, cands |-> <<>>, idx |-> 0]
IdleEnd == [pc |-> "idle", trip |-> None, ride_status |-> ""]
DoneEnd == [IdleEnd EXCEPT !.pc = "done"]
IdlePay == [pc |-> "idle", trip |-> None, key |-> None, payment |-> None,
            loaded |-> [status |-> "", psp_ref |-> None, idempotency_key |-> None],
            server_amount |-> 0, attempt |-> 0,
            psp_result |-> [status |-> "", psp_ref |-> None]]
DonePay == [IdlePay EXCEPT !.pc = "done"]
IdleGet == [pc |-> "idle", ride |-> None, status |-> ""]

(* ------------------------------ helpers ------------------------------- *)
Min(a, b) == IF a <= b THEN a ELSE b

(* drivers.tier: the first NearDrivers drivers registered as standard, the  *)
(* later ones as premium                                                   *)
DriverTier(d) == IF d <= NearDrivers THEN "standard" ELSE "premium"

(* A driver pings from one fixed place: among the drivers of a tier the    *)
(* d-th is the d-th nearest to every pickup, at d times 250 m.             *)
Dist(d) == IF d <= NearDrivers THEN d ELSE d - NearDrivers

(* the members of drivers:geo:{tier} *)
GeoKey(tier) == {d \in geo : DriverTier(d) = tier}

RECURSIVE SortByDist(_)
SortByDist(S) ==
    IF S = {} THEN <<>>
    ELSE LET n == CHOOSE x \in S : \A y \in S : Dist(x) <= Dist(y)
         IN  <<n>> \o SortByDist(S \ {n})

(* candidates farthest first *)
FarthestFirst(tier, count) ==
    LET all == SortByDist({d \in GeoKey(tier) : Dist(d) <= matching_radius_km})
        n == Min(count, Len(all))
    IN  [i \in 1..n |-> all[n + 1 - i]]

(* GEOSEARCH drivers:geo:{tier} radius=settings.matching_radius_km         *)
(* sort=ASC count=count                                                    *)
geo_nearby_drivers(tier, count) ==
    LET all == SortByDist({d \in GeoKey(tier) : Dist(d) <= matching_radius_km})
    IN  SubSeq(all, 1, Min(count, Len(all)))

(* json.dumps of a response body (a dict, in insertion order) and          *)
(* json.loads of the text: the text is the sequence of its key/value pairs *)
BodyKeys(body) ==
    IF "payment_id" \in DOMAIN body THEN <<"payment_id", "status", "psp_ref", "amount">>
    ELSE IF "id" \in DOMAIN body THEN <<"id", "status">>
    ELSE <<"detail">>

json_dumps(body) ==
    [i \in 1..Len(BodyKeys(body)) |-> <<BodyKeys(body)[i], body[BodyKeys(body)[i]]>>]

json_loads(text) ==
    [k \in {text[i][1] : i \in 1..Len(text)} |->
        text[CHOOSE i \in 1..Len(text) : text[i][1] = k][2]]

(* a check that never finds a stored response *)
NoReplay(op, key) == NoOut

(* check_idempotency: the stored response as a replay, or None (NoOut) *)
check_idempotency(op, key) ==
    IF key = None THEN NoOut
    ELSE IF idem[key] = NoEntry THEN NoOut
    ELSE [op |-> op, code |-> idem[key].status_code,
          body |-> json_loads(idem[key].body), replay |-> TRUE]

(* a store that keeps nothing *)
StoreNothing(key, status_code, body) == idem

(* store_idempotency_result: SETEX idempotency:{key} *)
store_idempotency_result(key, status_code, body) ==
    [idem EXCEPT ![key] = [status_code |-> status_code, body |-> json_dumps(body)]]

(* A response is recorded in out in the runs that observe responses; the   *)
(* stores do not depend on it.                                              *)
Send(resp) == IF observe THEN resp ELSE NoOut
Response(op, code, body) ==
    Send([op |-> op, code |-> code, body |-> body, replay |-> FALSE])
Error(op, code, detail) == Response(op, code, [detail |-> detail])

TripsOfRide(r) == {t \in TripIds : trips[t].ride_id = r}
PaymentsOfTrip(t) == {p \in PaymentIds : payments[p].trip_id = t}

(* The lowest free slot: requests and tasks are interchangeable, so a new   *)
(* one always takes the first idle slot.  A request slot is used once (the  *)
(* model follows MaxCreates, MaxEnds and MaxPays requests that reach the    *)
(* record store); a matcher slot is free again when its task has returned.  *)
FirstIdle(slots, ids) == CHOOSE i \in ids : slots[i].pc = "idle" /\ \A j \in ids : j < i => slots[j].pc # "idle"
HasIdle(slots, ids) == \E i \in ids : slots[i].pc = "idle"

(* ------------------------------ Init ---------------------------------- *)
(* The requests a run follows: up to MaxCreates rides, each ended and paid  *)
(* by one request, or one ride ended and paid by concurrent requests.       *)
Profiles ==
    {[creates |-> MaxCreates, ends |-> 1, pays |-> 1],
     [creates |-> 1, ends |-> MaxEnds, pays |-> MaxPays]}

Requests(prof) ==
    /\ creq = [c \in CreateIds |-> IF c <= prof.creates THEN IdleCreate ELSE DoneCreate]
    /\ ereq = [e \in EndIds |-> IF e <= prof.ends THEN IdleEnd ELSE DoneEnd]
    /\ preq = [p \in PayIds |-> IF p <= prof.pays THEN IdlePay ELSE DonePay]

(* The stores after NumDrivers drivers have registered (POST /v1/drivers    *)
(* inserts each with status offline) and before any other request.          *)
Registered(n) ==
    /\ drivers = [d \in 1..n |-> "offline"]
    /\ rowLock = [d \in 1..n |-> None]
    /\ rides = <<>>
    /\ trips = <<>>
    /\ payments = <<>>
    /\ geo = {}
    /\ tierKey = {}
    /\ locks = [d \in 1..n |-> None]
    /\ idem = [k \in Keys |-> NoEntry]
    /\ demand = 0
    /\ psp = <<>>
    /\ matcher = [m \in Matchers |-> IdleMatcher]
    /\ out = NoOut

Init ==
    /\ Registered(NumDrivers)
    /\ \E prof \in Profiles : Requests(prof)
    /\ observe = FALSE
    /\ settings = Settings(max_surge_multiplier)
    /\ cache = {}
    /\ greq = [g \in GetIds |-> IdleGet]
    /\ loc = geo

(* The same, in a run that records the responses *)
RespProfiles ==
    {[creates |-> MaxCreates, ends |-> 1, pays |-> 1],
     [creates |-> 1, ends |-> 1, pays |-> MaxPays]}

InitResp ==
    /\ Registered(NumDrivers)
    /\ \E prof \in RespProfiles : Requests(prof)
    /\ observe = TRUE
    /\ settings = Settings(max_surge_multiplier)
    /\ cache = {}
    /\ greq = [g \in GetIds |-> IdleGet]
    /\ loc = geo

(* The stores when MatchDrivers registered drivers have gone available and  *)
(* pinged their location, some have gone offline again (their geo entries   *)
(* stay), and only ride requests arrive.                                    *)
InitMatching ==
    /\ \E online \in SUBSET (1..MatchDrivers) :
           drivers = [d \in 1..MatchDrivers |-> IF d \in online THEN "available" ELSE "offline"]
    /\ rowLock = [d \in 1..MatchDrivers |-> None]
    /\ rides = <<>>
    /\ trips = <<>>
    /\ payments = <<>>
    /\ geo = 1..MatchDrivers
    /\ tierKey = 1..MatchDrivers
    /\ locks = [d \in 1..MatchDrivers |-> None]
    /\ idem = [k \in Keys |-> NoEntry]
    /\ demand = 0
    /\ psp = <<>>
    /\ matcher = [m \in Matchers |-> IdleMatcher]
    /\ out = NoOut
    /\ Requests([creates |-> MaxCreates, ends |-> 0, pays |-> 0])
    /\ observe = FALSE
    /\ settings = Settings(max_surge_multiplier)
    /\ cache = {}
    /\ greq = [g \in GetIds |-> IdleGet]
    /\ loc = geo

(* ----------------------------- status cache -------------------------- *)
(* cache_delete(redis, "ride:{id}:status") *)
cache_delete(r) == {e \in cache : e[1] # r}
(* cache_set(redis, "ride:{id}:status", ..., ttl=60) *)
cache_set(r, status) == cache_delete(r) \cup {<<r, status>>}

(* --------------------------- drivers router --------------------------- *)
(* PATCH /v1/drivers/{id}/status: write new_status on the row, whatever the *)
(* status was.  The UPDATE waits while a matcher's transaction holds the    *)
(* row FOR UPDATE; setting the status the row already has writes nothing.   *)
update_driver_status(d, new_status) ==
    /\ new_status \in {"offline", "available"}
    /\ rowLock[d] = None \/ drivers[d] = new_status
    /\ drivers' = [drivers EXCEPT ![d] = new_status]
    /\ out' = NoOut
    /\ UNCHANGED <<rowLock, rides, trips, payments, geo, tierKey, locks, idem,
                   demand, psp, creq, matcher, ereq, preq, observe, settings, cache, greq,
                   loc>>

(* POST /v1/drivers/{id}/location: with the tier cached the driver is added *)
(* to the geo set unconditionally; on a cache miss the tier is cached and   *)
(* the driver is added only when the row says available.                    *)
(* geo_add_driver: GEOADD to the set and SETEX driver:{id}:loc for 30 s.    *)
update_location(d) ==
    /\ IF d \in tierKey
         THEN /\ geo' = geo \cup {d}
              /\ loc' = loc \cup {d}
              /\ UNCHANGED tierKey
         ELSE /\ tierKey' = tierKey \cup {d}
              /\ geo' = IF drivers[d] = "available" THEN geo \cup {d} ELSE geo
              /\ loc' = IF drivers[d] = "available" THEN loc \cup {d} ELSE loc
    /\ out' = NoOut
    /\ UNCHANGED <<drivers, rowLock, rides, trips, payments, locks, idem,
                   demand, psp, creq, matcher, ereq, preq, observe, settings, cache, greq>>

(* 30 s after the driver's last ping: driver:{id}:loc expires *)
LocExpire(d) ==
    /\ d \in loc
    /\ loc' = loc \ {d}
    /\ out' = NoOut
    /\ UNCHANGED <<drivers, rowLock, rides, trips, payments, geo, tierKey, locks, idem,
                   demand, psp, creq, matcher, ereq, preq, observe, settings, cache, greq>>

(* a select of the ride row by id alone *)
AcceptRowByRide(d, r) == r \in RideIds

(* The row accept_ride selects FOR UPDATE: ride id, driver_id and MATCHED *)
AcceptRowSelected(d, r) ==
    /\ r \in RideIds
    /\ rides[r].driver_id = d
    /\ rides[r].status = "MATCHED"

(* POST /v1/drivers/{id}/accept *)
accept_ride(d, r) ==
    /\ IF ~AcceptRowSelected(d, r)
         THEN /\ out' = Error("accept_ride", 409, "Ride not found or already processed")
              /\ UNCHANGED <<rides, cache>>
         ELSE IF Cardinality(TripsOfRide(r)) # 1
         THEN /\ out' = Error("accept_ride", 500, "Trip record missing")
              /\ UNCHANGED <<rides, cache>>
         ELSE /\ rides' = [rides EXCEPT ![r].status = "DRIVER_EN_ROUTE"]
              /\ cache' = cache_delete(r)
              /\ out' = Response("accept_ride", 200,
                                 [trip_id |-> CHOOSE t \in TripsOfRide(r) : TRUE,
                                  status |-> "DRIVER_EN_ROUTE"])
    /\ UNCHANGED <<drivers, rowLock, trips, payments, geo, tierKey, locks, idem,
                   demand, psp, creq, matcher, ereq, preq, observe, settings, greq,
                   loc>>

(* The Redis lock key's TTL (settings.matching_timeout_seconds) runs out *)
LockExpire(d) ==
    /\ locks[d] # None
    /\ locks' = [locks EXCEPT ![d] = None]
    /\ out' = NoOut
    /\ UNCHANGED <<drivers, rowLock, rides, trips, payments, geo, tierKey, idem,
                   demand, psp, creq, matcher, ereq, preq, observe, settings, cache, greq,
                   loc>>

(* --------------------------- matching engine -------------------------- *)
(* a `continue` that stays on the candidate *)
SameCandidate(mm) == [mm EXCEPT !.pc = "lock"]

(* `continue`: the next candidate, or after the last one the final cancel *)
NextCandidate(mm) ==
    IF mm.idx < Len(mm.cands)
    THEN [mm EXCEPT !.pc = "lock", !.idx = @ + 1]
    ELSE [mm EXCEPT !.pc = "cancel"]

(* commit (or rollback) of matcher m's transaction frees its row locks *)
ReleaseRows(m) == [d \in DOMAIN rowLock |-> IF rowLock[d] = m THEN None ELSE rowLock[d]]

(* run_matching: geo_nearby_drivers; no candidates -> _cancel_ride *)
run_matching_candidates(m) ==
    /\ matcher[m].pc = "geo"
    /\ LET candidates == geo_nearby_drivers(rides[matcher[m].ride].tier,
                                            matching_max_retries * 5)
       IN  matcher' = [matcher EXCEPT ![m] =
               IF candidates = <<>>
               THEN [@ EXCEPT !.pc = "cancel"]
               ELSE [@ EXCEPT !.pc = "lock", !.cands = candidates, !.idx = 1]]
    /\ out' = NoOut
    /\ UNCHANGED <<drivers, rowLock, rides, trips, payments, geo, tierKey, locks,
                   idem, demand, psp, creq, ereq, preq, observe, settings, cache, greq,
                   loc>>

(* run_matching: redis.set(lock_key, ride_id, nx=True, px=...) *)
run_matching_lock(m) ==
    /\ matcher[m].pc = "lock"
    /\ LET d == matcher[m].cands[matcher[m].idx]
       IN  IF locks[d] = None
           THEN /\ locks' = [locks EXCEPT ![d] = matcher[m].ride]
                /\ matcher' = [matcher EXCEPT ![m].pc = "get"]
           ELSE /\ matcher' = [matcher EXCEPT ![m] = NextCandidate(@)]
                /\ UNCHANGED locks
    /\ out' = NoOut
    /\ UNCHANGED <<drivers, rowLock, rides, trips, payments, geo, tierKey,
                   idem, demand, psp, creq, ereq, preq, observe, settings, cache, greq,
                   loc>>

(* run_matching: db.get(Driver); not available -> redis.delete(lock_key) *)
run_matching_verify(m) ==
    /\ matcher[m].pc = "get"
    /\ LET d == matcher[m].cands[matcher[m].idx]
       IN  IF drivers[d] # "available"
           THEN /\ locks' = [locks EXCEPT ![d] = None]
                /\ matcher' = [matcher EXCEPT ![m] = NextCandidate(@)]
           ELSE /\ matcher' = [matcher EXCEPT ![m].pc = "assign"]
                /\ UNCHANGED locks
    /\ out' = NoOut
    /\ UNCHANGED <<drivers, rowLock, rides, trips, payments, geo, tierKey,
                   idem, demand, psp, creq, ereq, preq, observe, settings, cache, greq,
                   loc>>

(* a select of the driver row by id alone *)
DriverRowById(m, d) == TRUE

(* _assign_driver: SELECT driver WHERE id AND status = 'available'          *)
(* FOR UPDATE SKIP LOCKED returns the row (and locks it) or nothing         *)
DriverRowSelected(m, d) ==
    /\ drivers[d] = "available"
    /\ rowLock[d] \in {None, m}

(* _assign_driver, first select; no row -> return False, and run_matching   *)
(* goes on to the next candidate (the Redis lock stays set)                 *)
assign_driver_lock_driver(m) ==
    /\ matcher[m].pc = "assign"
    /\ LET d == matcher[m].cands[matcher[m].idx]
       IN  IF DriverRowSelected(m, d)
           THEN /\ rowLock' = [rowLock EXCEPT ![d] = m]
                /\ matcher' = [matcher EXCEPT ![m].pc = "assign_ride"]
           ELSE /\ matcher' = [matcher EXCEPT ![m] = NextCandidate(@)]
                /\ UNCHANGED rowLock
    /\ out' = NoOut
    /\ UNCHANGED <<drivers, rides, trips, payments, geo, tierKey, locks,
                   idem, demand, psp, creq, ereq, preq, observe, settings, cache, greq,
                   loc>>

(* an assignment that does not look at the ride's status or trip *)
AssignAlways(r) == "commit"

(* _assign_driver from the second select on: SELECT ride WHERE id AND       *)
(* status = 'REQUESTED' FOR UPDATE gives no row ("none"), or the row; then  *)
(* the flush inserts the trip, which trips.ride_id UNIQUE refuses ("raise") *)
(* when the ride has one, or the transaction commits ("commit")             *)
AssignOutcome(r) ==
    IF rides[r].status # "REQUESTED" THEN "none"
    ELSE IF TripsOfRide(r) # {} THEN "raise"
    ELSE "commit"

(* ride.status = "MATCHED"; ride.driver_id = driver_id *)
StatusOnly(row, d) == [row EXCEPT !.status = "MATCHED"]
RowKept(row, d) == row
Requoted(row, d) ==
    [row EXCEPT !.status = "MATCHED", !.driver_id = d, !.surge_multiplier = 100]
ride_matched(row, d) == [row EXCEPT !.status = "MATCHED", !.driver_id = d]

assign_driver_commit(m) ==
    /\ matcher[m].pc = "assign_ride"
    /\ LET d == matcher[m].cands[matcher[m].idx]
           r == matcher[m].ride
       IN  CASE AssignOutcome(r) = "none" ->
                    \* return False: the savepoint is released, the driver row
                    \* stays locked until this session commits
                    /\ matcher' = [matcher EXCEPT ![m] = NextCandidate(@)]
                    /\ UNCHANGED <<drivers, rowLock, rides, trips, locks, cache>>
             [] AssignOutcome(r) = "raise" ->
                    \* the savepoint rolls back (its row lock with it);
                    \* except: redis.delete(lock_key); continue
                    /\ rowLock' = [rowLock EXCEPT ![d] = None]
                    /\ locks' = [locks EXCEPT ![d] = None]
                    /\ matcher' = [matcher EXCEPT ![m] = NextCandidate(@)]
                    /\ UNCHANGED <<drivers, rides, trips, cache>>
             [] OTHER ->
                    /\ drivers' = [drivers EXCEPT ![d] = "on_trip"]
                    /\ rides' = [rides EXCEPT ![r] = ride_matched(@, d)]
                    /\ trips' = Append(trips, [ride_id |-> r, driver_id |-> d,
                                               status |-> "ACTIVE", base_fare |-> NoFare,
                                               surge_fare |-> NoFare, total_fare |-> NoFare])
                    /\ rowLock' = ReleaseRows(m)
                    /\ matcher' = [matcher EXCEPT ![m] = IdleMatcher]
                    \* cache_delete(redis, f"ride:{ride_id}:status")
                    /\ cache' = cache_delete(r)
                    /\ UNCHANGED locks
    /\ out' = NoOut
    /\ UNCHANGED <<payments, geo, tierKey, idem, demand, psp, creq, ereq, preq, observe,
                   settings, greq, loc>>

(* run_matching(ride_id, ...) entered once more for a ride that is still     *)
(* REQUESTED: a second task for the same ride                               *)
run_matching_again(r) ==
    /\ r \in RideIds
    /\ rides[r].status = "REQUESTED"
    /\ HasIdle(matcher, Matchers)
    /\ matcher' = [matcher EXCEPT ![FirstIdle(matcher, Matchers)] =
                       [IdleMatcher EXCEPT !.pc = "geo", !.ride = r]]
    /\ out' = NoOut
    /\ UNCHANGED <<drivers, rowLock, rides, trips, payments, geo, tierKey, locks,
                   idem, demand, psp, creq, ereq, preq, observe, settings, cache, greq,
                   loc>>

(* _cancel_ride: UPDATE rides SET status = 'CANCELLED' WHERE id; commit *)
cancel_ride(m) ==
    /\ matcher[m].pc = "cancel"
    /\ rides' = [rides EXCEPT ![matcher[m].ride].status = "CANCELLED"]
    /\ rowLock' = ReleaseRows(m)
    /\ matcher' = [matcher EXCEPT ![m] = IdleMatcher]
    /\ out' = NoOut
    /\ UNCHANGED <<drivers, trips, payments, geo, tierKey, locks, idem, demand,
                   psp, creq, ereq, preq, observe, settings, cache, greq, loc>>

(* ---------------------------- fare calculator ------------------------- *)
(* Fares are in paise (1/100 rupee), distances in units of 0.0001 km, the    *)
(* surge multiplier in hundredths; a trip's fare columns are NULL (NoFare)  *)
(* until the trip ends.                                                     *)
FlatFees == [standard |-> 30, premium |-> 30, xl |-> 30]
BASE_FEE == [standard |-> 30, premium |-> 60, xl |-> 80]
RATE_PER_KM == [standard |-> 10, premium |-> 15, xl |-> 20]
Tiers == DOMAIN BASE_FEE
(* surge multipliers of the bands of compute_surge and the default ceiling *)
Surges == {100, 150, 200, 300, 500}

(* to_dec: round(v, 2) of a value given in millionths of a rupee.  A value  *)
(* half-way between two paise is a float just above or just below the      *)
(* half, and is rounded accordingly.                                        *)
to_dec(v) ==
    IF v % 10000 = 5000 THEN {v \div 10000, v \div 10000 + 1}
    ELSE {(v + 5000) \div 10000}

(* base, surge_component and total are each rounded on their own; two of    *)
(* them that are the same float (surge 1.0: total = base, surge 2.0:        *)
(* surge_component = base) round to the same value.                         *)
calculate_fare(tier, distance, surge_multiplier) ==
    LET known == tier \in DOMAIN BASE_FEE
        fee == IF known THEN BASE_FEE[tier] ELSE 30
        rate == IF known THEN RATE_PER_KM[tier] ELSE 10
        base == fee * 10000 + rate * distance
        surge_component == base * (surge_multiplier - 100)
        total == base * 100 + surge_component
        rounded == {[base_fare |-> b, surge_fare |-> c, total_fare |-> t] :
                       b \in to_dec(base * 100), c \in to_dec(surge_component),
                       t \in to_dec(total)}
    IN  {f \in rounded : /\ total = base * 100 => f.total_fare = f.base_fare
                         /\ surge_component = base * 100 => f.surge_fare = f.base_fare}

(* round(x, 2) of a float x given in tenths of a paisa: a value half-way    *)
(* between two paise is a float just above or just below the half.          *)
round_2(tenths) ==
    LET low == tenths \div 10
        rest == tenths % 10
    IN  IF rest < 5 THEN {low} ELSE IF rest > 5 THEN {low + 1} ELSE {low, low + 1}

(* a window that is the fare itself *)
NarrowWindow(tier, distance_km, surge_multiplier) ==
    {[min |-> f.total_fare, max |-> f.total_fare] :
        f \in calculate_fare(tier, distance_km, surge_multiplier)}

(* estimate_fare_range: the total of calculate_fare times 0.9 and times 1.1, *)
(* each rounded to two decimals (in paise)                                   *)
estimate_fare_range(tier, distance_km, surge_multiplier) ==
    UNION {{[min |-> lo, max |-> hi] : lo \in round_2(9 * f.total_fare),
                                       hi \in round_2(11 * f.total_fare)} :
              f \in calculate_fare(tier, distance_km, surge_multiplier)}

(* the distances of the trips that are ended: whole kilometres *)
Distances == {10000 * k : k \in 1..MaxDist}
(* What clients send as payload.amount: a fare the server may have computed, *)
(* the fare plus one or two paise, or an amount that is no fare at all.      *)
Amounts ==
    {f.total_fare + k :
        f \in UNION {calculate_fare("standard", d, m) : d \in Distances, m \in Surges},
        k \in 0..2} \cup {100}

(* ----------------------------- surge engine --------------------------- *)
(* round(demand / supply, 2) in hundredths.  A ratio half-way between two   *)
(* hundredths that is a float exactly (a multiple of 1/8) goes to the even  *)
(* one; any other is a float just above or just below the half.             *)
round_ratio(dem, supply) ==
    LET low == (100 * dem) \div supply
        rest == (100 * dem) % supply
    IN  IF 2 * rest < supply THEN {low}
        ELSE IF 2 * rest > supply THEN {low + 1}
        ELSE IF (8 * dem) % supply = 0 THEN {IF low % 2 = 0 THEN low ELSE low + 1}
        ELSE {low, low + 1}

(* a multiplier that ignores demand and supply *)
FlatSurge(demand_raw, supply_raw, ceiling) == {100}

(* the ratio in hundredths, with no ceiling *)
Uncapped(demand_raw, supply_raw, ceiling) ==
    {(100 * demand_raw) \div (IF supply_raw > 1 THEN supply_raw ELSE 1)} \cup {100}

(* compute_surge: demand_raw is the counter or None, supply_raw the ZCARD of *)
(* the geo set, ceiling settings.max_surge_multiplier in hundredths.  The   *)
(* values it can return, in hundredths.                                     *)
compute_surge(demand_raw, supply_raw, ceiling) ==
    LET dem == IF demand_raw = None THEN 0 ELSE demand_raw
        supply == IF supply_raw > 1 THEN supply_raw ELSE 1
    IN  IF 2 * dem < supply THEN {100}
        ELSE IF dem < supply THEN {150}
        ELSE IF dem < 2 * supply THEN {200}
        ELSE IF dem < 3 * supply THEN {300}
        ELSE IF 100 * dem >= ceiling * supply THEN {ceiling}
        ELSE round_ratio(dem, supply)

(* The stores when a ride of any tier, created under any surge multiplier   *)
(* compute_surge returns, is MATCHED and its trip ACTIVE, and the trip is   *)
(* ended by one request after a distance of any length.                     *)
FareDistances == 0..MaxFareDist
(* rides.tier is a String column: the three tiers and any other value *)
FareTiers == Tiers \cup {"other"}

InitFare ==
    /\ drivers = [d \in 1..NumDrivers |-> IF d = 1 THEN "on_trip" ELSE "offline"]
    /\ rowLock = [d \in 1..NumDrivers |-> None]
    /\ \E tier \in FareTiers, surge \in Surges :
           rides = <<[status |-> "MATCHED", driver_id |-> 1, tier |-> tier,
                      surge_multiplier |-> surge, idempotency_key |-> None]>>
    /\ trips = <<[ride_id |-> 1, driver_id |-> 1, status |-> "ACTIVE", base_fare |-> NoFare,
                  surge_fare |-> NoFare, total_fare |-> NoFare]>>
    /\ payments = <<>>
    /\ geo = {1}
    /\ tierKey = {1}
    /\ locks = [d \in 1..NumDrivers |-> None]
    /\ idem = [k \in Keys |-> NoEntry]
    /\ demand = 1
    /\ psp = <<>>
    /\ matcher = [m \in Matchers |-> IdleMatcher]
    /\ out = NoOut
    /\ Requests([creates |-> 0, ends |-> 1, pays |-> 0])
    /\ observe = FALSE
    /\ settings = Settings(max_surge_multiplier)
    /\ cache = {}
    /\ greq = [g \in GetIds |-> IdleGet]
    /\ loc = geo

(* ----------------------------- rides router --------------------------- *)
RideBody(r) == [id |-> r, status |-> "REQUESTED"]

(* create_ride, step 1: the idempotency check.  A hit answers the request.  *)
(* The payload gives the tier and, by the haversine distance of its two     *)
(* points, distance_km (in 0.0001 km).                                      *)
create_ride_request(key, tier, distance_km) ==
    /\ LET c == FirstIdle(creq, CreateIds)
           cached == check_idempotency("create_ride", key)
       IN  IF cached.replay
           THEN /\ out' = Send(cached)
                /\ UNCHANGED creq
           ELSE /\ HasIdle(creq, CreateIds)
                /\ creq' = [creq EXCEPT ![c] = [IdleCreate EXCEPT !.pc = "insert",
                                                    !.key = key, !.tier = tier,
                                                    !.distance_km = distance_km]]
                /\ out' = NoOut
    /\ UNCHANGED <<drivers, rowLock, rides, trips, payments, geo, tierKey, locks,
                   idem, demand, psp, matcher, ereq, preq, observe, settings, cache, greq,
                   loc>>

(* a request for a standard ride of one kilometre *)
create_ride_check(key) == create_ride_request(key, "standard", 10000)

(* create_ride, steps 2-4: compute_surge from the demand counter and the    *)
(* size of the geo set, estimate_fare_range for the response, insert the    *)
(* REQUESTED ride with the multiplier and commit.                           *)
(* rides.idempotency_key is UNIQUE: a second row with the key is refused    *)
(* and the request ends in the global handler's 500.                        *)
create_ride_insert(c) ==
    /\ creq[c].pc = "insert"
    /\ IF creq[c].key # None /\ \E r \in RideIds : rides[r].idempotency_key = creq[c].key
         THEN /\ out' = Error("create_ride", 500, "Internal server error")
              /\ creq' = [creq EXCEPT ![c] = DoneCreate]
              /\ UNCHANGED rides
         ELSE /\ \E surge \in compute_surge(demand, Cardinality(GeoKey(creq[c].tier)),
                                              settings.max_surge_multiplier) :
                 \E fare_range \in estimate_fare_range(creq[c].tier,
                                                       creq[c].distance_km, surge) :
                     /\ rides' = Append(rides,
                                        [status |-> "REQUESTED", driver_id |-> None,
                                         tier |-> creq[c].tier,
                                         surge_multiplier |-> surge,
                                         idempotency_key |-> creq[c].key])
                     /\ creq' = [creq EXCEPT ![c].pc = "incr",
                                             ![c].ride = Len(rides) + 1,
                                             ![c].estimated_fare = fare_range]
              /\ out' = NoOut
    /\ UNCHANGED <<drivers, rowLock, trips, payments, geo, tierKey, locks, idem,
                   demand, psp, matcher, ereq, preq, observe, settings, cache, greq,
                   loc>>

(* create_ride, steps 5-6: increment_demand, then asyncio.create_task of    *)
(* run_matching; without a key the 201 is returned here.                    *)
create_ride_spawn(c) ==
    /\ creq[c].pc = "incr"
    /\ HasIdle(matcher, Matchers)
    /\ demand' = demand + 1
    /\ matcher' = [matcher EXCEPT ![FirstIdle(matcher, Matchers)] =
                       [IdleMatcher EXCEPT !.pc = "geo", !.ride = creq[c].ride]]
    /\ IF creq[c].key = None
         THEN /\ out' = Response("create_ride", 201, RideBody(creq[c].ride))
              /\ creq' = [creq EXCEPT ![c] = DoneCreate]
         ELSE /\ out' = NoOut
              /\ creq' = [creq EXCEPT ![c].pc = "store"]
    /\ UNCHANGED <<drivers, rowLock, rides, trips, payments, geo, tierKey, locks,
                   idem, psp, ereq, preq, observe, settings, cache, greq, loc>>

(* create_ride, step 7: store_idempotency_result, then return the 201 *)
create_ride_store(c) ==
    /\ creq[c].pc = "store"
    /\ idem' = store_idempotency_result(creq[c].key, 201, RideBody(creq[c].ride))
    /\ out' = Response("create_ride", 201, RideBody(creq[c].ride))
    /\ creq' = [creq EXCEPT ![c] = DoneCreate]
    /\ UNCHANGED <<drivers, rowLock, rides, trips, payments, geo, tierKey, locks,
                   demand, psp, matcher, ereq, preq, observe, settings, cache, greq,
                   loc>>

(* GET /v1/rides/{id}: cache_get; a hit is returned as it is *)
CachedStatus(r) == {e[2] : e \in {x \in cache : x[1] = r}}
get_ride_cache(r) ==
    /\ r \in 1..(Len(rides) + 1)
    /\ IF CachedStatus(r) # {}
         THEN /\ out' = Response("get_ride", 200,
                                 [id |-> r, status |-> CHOOSE st \in CachedStatus(r) : TRUE])
              /\ UNCHANGED greq
         ELSE /\ HasIdle(greq, GetIds)
              /\ greq' = [greq EXCEPT ![FirstIdle(greq, GetIds)] =
                              [IdleGet EXCEPT !.pc = "select", !.ride = r]]
              /\ out' = NoOut
    /\ UNCHANGED <<drivers, rowLock, rides, trips, payments, geo, tierKey, locks,
                   idem, demand, psp, creq, matcher, ereq, preq, observe, settings,
                   cache, loc>>

(* get_ride, DB fallback: select the ride row; 404 when there is none *)
get_ride_select(g) ==
    /\ greq[g].pc = "select"
    /\ IF greq[g].ride \in RideIds
         THEN /\ greq' = [greq EXCEPT ![g].pc = "set",
                                      ![g].status = rides[greq[g].ride].status]
              /\ out' = NoOut
         ELSE /\ greq' = [greq EXCEPT ![g].pc = "done"]
              /\ out' = Error("get_ride", 404, "Ride not found")
    /\ UNCHANGED <<drivers, rowLock, rides, trips, payments, geo, tierKey, locks,
                   idem, demand, psp, creq, matcher, ereq, preq, observe, settings,
                   cache, loc>>

(* get_ride, last step: cache_set of the response built from the row read, *)
(* then return it; the slot keeps what the request asked and read         *)
get_ride_set(g) ==
    /\ greq[g].pc = "set"
    /\ cache' = cache_set(greq[g].ride, greq[g].status)
    /\ out' = Response("get_ride", 200,
                       [id |-> greq[g].ride, status |-> greq[g].status])
    /\ greq' = [greq EXCEPT ![g].pc = "done"]
    /\ UNCHANGED <<drivers, rowLock, rides, trips, payments, geo, tierKey, locks,
                   idem, demand, psp, creq, matcher, ereq, preq, observe, settings,
                   loc>>

(* The 60 s TTL of ride:{id}:status runs out *)
CacheExpire(r) ==
    /\ CachedStatus(r) # {}
    /\ cache' = cache_delete(r)
    /\ out' = NoOut
    /\ UNCHANGED <<drivers, rowLock, rides, trips, payments, geo, tierKey, locks,
                   idem, demand, psp, creq, matcher, ereq, preq, observe, settings,
                   greq, loc>>

(* ----------------------------- trips router --------------------------- *)
(* end_trip: select the trip; 409 unless it is ACTIVE or PAUSED *)
end_trip_select_trip(t) ==
    /\ HasIdle(ereq, EndIds)
    /\ t \in TripIds
    /\ IF trips[t].status \notin {"ACTIVE", "PAUSED"}
         THEN /\ out' = Error("end_trip", 409, "Trip is already COMPLETED")
              /\ UNCHANGED ereq
         ELSE /\ ereq' = [ereq EXCEPT ![FirstIdle(ereq, EndIds)] =
                              [IdleEnd EXCEPT !.pc = "ride", !.trip = t]]
              /\ out' = NoOut
    /\ UNCHANGED <<drivers, rowLock, rides, trips, payments, geo, tierKey, locks,
                   idem, demand, psp, creq, matcher, preq, observe, settings, cache, greq,
                   loc>>

(* end_trip: select the ride; the session keeps the row as it was read *)
end_trip_select_ride(e) ==
    /\ ereq[e].pc = "ride"
    /\ ereq' = [ereq EXCEPT ![e].pc = "commit",
                            ![e].ride_status = rides[trips[ereq[e].trip].ride_id].status]
    /\ out' = NoOut
    /\ UNCHANGED <<drivers, rowLock, rides, trips, payments, geo, tierKey, locks,
                   idem, demand, psp, creq, matcher, preq, observe, settings, cache, greq,
                   loc>>

(* end_trip: the nested transaction and the commit.  The session writes the *)
(* attributes that differ from what it read: always the trip's, the ride's  *)
(* status unless it was read as PAYMENT_PENDING; UPDATE drivers has no      *)
(* status condition and waits for a matcher's lock on the row; the payment  *)
(* is inserted PENDING.                                                     *)
end_trip_commit(e, distance) ==
    /\ ereq[e].pc = "commit"
    /\ LET t == ereq[e].trip
           r == trips[t].ride_id
           d == trips[t].driver_id
       IN  \E fare \in calculate_fare(rides[r].tier, distance, rides[r].surge_multiplier) :
           /\ rowLock[d] = None
           /\ trips' = [trips EXCEPT ![t].status = "COMPLETED",
                                     ![t].base_fare = fare.base_fare,
                                     ![t].surge_fare = fare.surge_fare,
                                     ![t].total_fare = fare.total_fare]
           /\ rides' = IF ereq[e].ride_status = "PAYMENT_PENDING" THEN rides
                       ELSE [rides EXCEPT ![r].status = "PAYMENT_PENDING"]
           /\ drivers' = [drivers EXCEPT ![d] = "available"]
           /\ payments' = Append(payments, [trip_id |-> t, amount |-> fare.total_fare,
                                            status |-> "PENDING", psp_ref |-> None,
                                            idempotency_key |-> None])
           /\ out' = Response("end_trip", 200,
                              [trip_id |-> t, base_fare |-> fare.base_fare,
                               surge_fare |-> fare.surge_fare,
                               total_fare |-> fare.total_fare,
                               payment_status |-> "PAYMENT_PENDING"])
    /\ cache' = cache_delete(trips[ereq[e].trip].ride_id)
    /\ ereq' = [ereq EXCEPT ![e] = DoneEnd]
    /\ UNCHANGED <<rowLock, geo, tierKey, locks, idem, demand, psp, creq, matcher, preq,
                   observe, settings, greq, loc>>

(* ---------------------------- payments router ------------------------ *)
PaymentBody(p, status, psp_ref) ==
    [payment_id |-> p, status |-> status, psp_ref |-> psp_ref,
     amount |-> payments[p].amount]

(* create_payment, step 1: the idempotency check.  A hit answers the request. *)
create_payment_check(key) ==
    /\ LET cached == check_idempotency("create_payment", key)
       IN  IF cached.replay
           THEN /\ out' = Send(cached)
                /\ UNCHANGED preq
           ELSE /\ HasIdle(preq, PayIds)
                /\ preq' = [preq EXCEPT ![FirstIdle(preq, PayIds)] =
                                [IdlePay EXCEPT !.pc = "load", !.key = key]]
                /\ out' = NoOut
    /\ UNCHANGED <<drivers, rowLock, rides, trips, payments, geo, tierKey, locks,
                   idem, demand, psp, creq, matcher, ereq, observe, settings, cache, greq,
                   loc>>

(* abs(float(payload.amount) - float(server_amount)) > 0.01: the outcomes of *)
(* the comparison.  A difference of exactly one paise is decided by the     *)
(* rounding of the two floats and goes either way.                          *)
NoAmountCheck(diff) == {FALSE}
amount_mismatch(diff) ==
    IF diff > 1 \/ diff < -1 THEN {TRUE}
    ELSE IF diff = 0 THEN {FALSE}
    ELSE BOOLEAN

(* create_payment, steps 2-4: load the trip and its payment row             *)
(* (scalar_one_or_none raises on two rows), return a SUCCESS payment as it  *)
(* is, validate the amount, and set payment.idempotency_key in the session. *)
create_payment_load(p, t, amount) ==
    /\ preq[p].pc = "load"
    /\ t \in TripIds
    /\ LET pays == PaymentsOfTrip(t)
           pid == CHOOSE q \in pays : TRUE
           diff == amount - trips[t].total_fare
           stop(resp) == /\ out' = resp
                         /\ preq' = [preq EXCEPT ![p] = DonePay]
       IN  IF trips[t].status # "COMPLETED"
             THEN stop(Error("create_payment", 409, "Trip is not yet completed"))
           ELSE IF pays = {}
             THEN stop(Error("create_payment", 404, "Payment record not found"))
           ELSE IF Cardinality(pays) > 1
             THEN stop(Error("create_payment", 500, "Internal server error"))
           ELSE IF payments[pid].status = "SUCCESS"
             THEN stop(Response("create_payment", 200,
                                PaymentBody(pid, payments[pid].status, payments[pid].psp_ref)))
           ELSE \/ /\ TRUE \in amount_mismatch(diff)
                   /\ stop(Error("create_payment", 400, "Amount mismatch"))
                \/ /\ FALSE \in amount_mismatch(diff)
                   /\ preq' = [preq EXCEPT ![p].pc = "charge",
                                           ![p].trip = t,
                                           ![p].payment = pid,
                                           ![p].loaded = [status |-> payments[pid].status,
                                                          psp_ref |-> payments[pid].psp_ref,
                                                          idempotency_key |-> payments[pid].idempotency_key],
                                           ![p].server_amount = trips[t].total_fare,
                                           ![p].attempt = 1]
                   /\ out' = NoOut
    /\ UNCHANGED <<drivers, rowLock, rides, trips, payments, geo, tierKey, locks,
                   idem, demand, psp, creq, matcher, ereq, observe, settings, cache, greq,
                   loc>>

(* _call_psp: PSPError for an amount that is not positive or when the call  *)
(* to the provider fails (up = FALSE); the stub in the source never fails.  *)
CallFails(amount, up) == FALSE
call_psp(amount, up) == amount > 0 /\ up

(* the key charge() passes to the provider: idempotency_key or payment.id *)
ProviderKey(key, pid) == IF key # None THEN <<"key", key>> ELSE <<"payment", pid>>

(* charge: one _call_psp attempt; the third PSPError gives FAILED with no   *)
(* reference.                                                               *)
create_payment_charge(p, up) ==
    /\ preq[p].pc = "charge"
    /\ IF call_psp(preq[p].server_amount, up)
         THEN /\ psp' = Append(psp, [trip |-> preq[p].trip, payment |-> preq[p].payment,
                                     amount |-> preq[p].server_amount,
                                     key |-> ProviderKey(preq[p].key, preq[p].payment)])
              /\ preq' = [preq EXCEPT ![p].pc = "commit",
                                      ![p].psp_result = [status |-> "SUCCESS",
                                                         psp_ref |-> Len(psp) + 1]]
         ELSE /\ UNCHANGED psp
              /\ preq' = IF preq[p].attempt = ChargeAttempts
                         THEN [preq EXCEPT ![p].pc = "commit",
                                           ![p].psp_result = [status |-> "FAILED",
                                                              psp_ref |-> None]]
                         ELSE [preq EXCEPT ![p].attempt = @ + 1]
    /\ out' = NoOut
    /\ UNCHANGED <<drivers, rowLock, rides, trips, payments, geo, tierKey, locks,
                   idem, demand, creq, matcher, ereq, observe, settings, cache, greq,
                   loc>>

(* a flush that writes nothing *)
NoFlush(row, loaded, status, psp_ref, key) == row

(* what the session's flush writes on the payment row: the attributes whose *)
(* new value differs from the value loaded                                  *)
PaymentFlush(row, loaded, status, psp_ref, key) ==
    [row EXCEPT !.status = IF status # loaded.status THEN status ELSE @,
                !.psp_ref = IF psp_ref # loaded.psp_ref THEN psp_ref ELSE @,
                !.idempotency_key = IF key # loaded.idempotency_key THEN key ELSE @]

(* create_payment, step 6: record the outcome on the payment and the ride   *)
(* and commit.  payments.idempotency_key is UNIQUE: the flush is refused    *)
(* when another row carries the key, and the request ends in a 500.         *)
create_payment_commit(p) ==
    /\ preq[p].pc = "commit"
    /\ LET pid == preq[p].payment
           key == preq[p].key
           res == preq[p].psp_result
           r == trips[preq[p].trip].ride_id
       IN  IF /\ key # None
              /\ key # preq[p].loaded.idempotency_key
              /\ \E q \in PaymentIds \ {pid} : payments[q].idempotency_key = key
           THEN /\ out' = Error("create_payment", 500, "Internal server error")
                /\ preq' = [preq EXCEPT ![p] = DonePay]
                /\ UNCHANGED <<payments, rides, cache>>
           ELSE /\ payments' = [payments EXCEPT ![pid] =
                                    PaymentFlush(@, preq[p].loaded, res.status, res.psp_ref, key)]
                /\ cache' = cache_delete(r)
                /\ rides' = [rides EXCEPT ![r].status =
                                 IF res.status = "SUCCESS" THEN "COMPLETED" ELSE "PAYMENT_FAILED"]
                /\ IF key = None
                     THEN /\ out' = Response("create_payment", 200,
                                             PaymentBody(pid, res.status, res.psp_ref))
                          /\ preq' = [preq EXCEPT ![p] = DonePay]
                     ELSE /\ out' = NoOut
                          /\ preq' = [preq EXCEPT ![p].pc = "store"]
    /\ UNCHANGED <<drivers, rowLock, trips, geo, tierKey, locks, idem, demand,
                   psp, creq, matcher, ereq, observe, settings, greq, loc>>

(* create_payment, last step: store_idempotency_result, then return *)
create_payment_store(p) ==
    /\ preq[p].pc = "store"
    /\ LET body == PaymentBody(preq[p].payment, preq[p].psp_result.status,
                               preq[p].psp_result.psp_ref)
       IN  /\ idem' = store_idempotency_result(preq[p].key, 200, body)
           /\ out' = Response("create_payment", 200, body)
    /\ preq' = [preq EXCEPT ![p] = DonePay]
    /\ UNCHANGED <<drivers, rowLock, rides, trips, payments, geo, tierKey, locks,
                   demand, psp, creq, matcher, ereq, observe, settings, cache, greq,
                   loc>>

(* --------------------------- specifications --------------------------- *)
Next ==
    \/ \E d \in Drivers, s \in {"offline", "available"} : update_driver_status(d, s)
    \/ \E d \in Drivers : update_location(d)
    \/ \E d \in Drivers, r \in RideIds : accept_ride(d, r)
    \/ \E d \in Drivers : LockExpire(d)
    \/ \E k \in Keys \cup {None} : create_ride_check(k)
    \/ \E c \in CreateIds : create_ride_insert(c)
    \/ \E c \in CreateIds : create_ride_spawn(c)
    \/ \E c \in CreateIds : create_ride_store(c)
    \/ \E m \in Matchers : run_matching_candidates(m)
    \/ \E m \in Matchers : run_matching_lock(m)
    \/ \E m \in Matchers : run_matching_verify(m)
    \/ \E m \in Matchers : assign_driver_lock_driver(m)
    \/ \E m \in Matchers : assign_driver_commit(m)
    \/ \E m \in Matchers : cancel_ride(m)
    \/ \E t \in TripIds : end_trip_select_trip(t)
    \/ \E e \in EndIds : end_trip_select_ride(e)
    \/ \E e \in EndIds, dist \in Distances : end_trip_commit(e, dist)
    \/ \E k \in Keys \cup {None} : create_payment_check(k)
    \/ \E p \in PayIds, t \in TripIds, a \in Amounts : create_payment_load(p, t, a)
    \/ \E p \in PayIds : create_payment_charge(p, TRUE)
    \/ \E p \in PayIds : create_payment_commit(p)
    \/ \E p \in PayIds : create_payment_store(p)

Spec == Init /\ [][Next]_vars

(* Ride requests and their matching tasks only: nothing else changes a      *)
(* driver's status.                                                         *)
NextMatching ==
    \/ \E d \in Drivers : LockExpire(d)
    \/ \E k \in Keys \cup {None} : create_ride_check(k)
    \/ \E c \in CreateIds : create_ride_insert(c)
    \/ \E c \in CreateIds : create_ride_spawn(c)
    \/ \E c \in CreateIds : create_ride_store(c)
    \/ \E m \in Matchers : run_matching_candidates(m)
    \/ \E m \in Matchers : run_matching_lock(m)
    \/ \E m \in Matchers : run_matching_verify(m)
    \/ \E m \in Matchers : assign_driver_lock_driver(m)
    \/ \E m \in Matchers : assign_driver_commit(m)
    \/ \E m \in Matchers : cancel_ride(m)

SpecMatching == InitMatching /\ [][NextMatching]_vars

(* The same with several matching tasks for one ride *)
NextRematch ==
    \/ NextMatching
    \/ \E r \in RideIds : run_matching_again(r)

SpecRematch == InitMatching /\ [][NextRematch]_vars

(* Ride requests and their matching tasks, with any set of drivers in the   *)
(* geo set, the empty one too.  The event loop runs every task that is      *)
(* ready: a matching task that can take a step takes it in the end.         *)
InitIndexed ==
    /\ \E online \in SUBSET (1..MatchDrivers) :
           drivers = [d \in 1..MatchDrivers |-> IF d \in online THEN "available" ELSE "offline"]
    /\ rowLock = [d \in 1..MatchDrivers |-> None]
    /\ rides = <<>>
    /\ trips = <<>>
    /\ payments = <<>>
    /\ \E indexed \in SUBSET (1..MatchDrivers) :
           /\ geo = indexed
           /\ tierKey = indexed
    /\ locks = [d \in 1..MatchDrivers |-> None]
    /\ idem = [k \in Keys |-> NoEntry]
    /\ demand = 0
    /\ psp = <<>>
    /\ matcher = [m \in Matchers |-> IdleMatcher]
    /\ out = NoOut
    /\ Requests([creates |-> MaxCreates, ends |-> 0, pays |-> 0])
    /\ observe = FALSE
    /\ settings = Settings(max_surge_multiplier)
    /\ cache = {}
    /\ greq = [g \in GetIds |-> IdleGet]
    /\ loc = geo

MatchingTask(m) ==
    \/ run_matching_candidates(m)
    \/ run_matching_lock(m)
    \/ run_matching_verify(m)
    \/ assign_driver_lock_driver(m)
    \/ assign_driver_commit(m)
    \/ cancel_ride(m)

SpecMatchingFair ==
    /\ InitIndexed
    /\ [][NextMatching]_vars
    /\ \A m \in Matchers : WF_vars(MatchingTask(m))
SpecResp == InitResp /\ [][Next]_vars

(* The same handlers with a provider whose calls can fail: _call_psp raises *)
(* PSPError, as the provider call the stub stands for does on an error      *)
(* response.                                                                *)
NextProvider ==
    \/ Next
    \/ \E p \in PayIds : create_payment_charge(p, FALSE)

SpecProvider == Init /\ [][NextProvider]_vars

(* The same with the responses recorded *)
SpecProviderResp == InitResp /\ [][NextProvider]_vars

(* charge(rider_id, amount, payment_method, idempotency_key) on its own:    *)
(* each caller passes any amount, positive or not, and a key or its         *)
(* payment's id, and the provider answers or fails each call.               *)
ChargeAmounts == -1..MaxChargeAmount

InitCharge ==
    /\ Registered(NumDrivers)
    /\ creq = [c \in CreateIds |-> DoneCreate]
    /\ ereq = [e \in EndIds |-> DoneEnd]
    /\ \E amount \in [PayIds -> ChargeAmounts], key \in [PayIds -> Keys \cup {None}] :
           preq = [p \in PayIds |-> [IdlePay EXCEPT !.pc = "charge", !.key = key[p],
                                                    !.payment = p,
                                                    !.server_amount = amount[p],
                                                    !.attempt = 1]]
    /\ observe = FALSE
    /\ settings = Settings(max_surge_multiplier)
    /\ cache = {}
    /\ greq = [g \in GetIds |-> IdleGet]
    /\ loc = geo

NextCharge == \E p \in PayIds, up \in BOOLEAN : create_payment_charge(p, up)

SpecCharge == InitCharge /\ [][NextCharge]_vars

(* compute_surge on its own: one ride is created with any demand counter,   *)
(* any number of drivers in the geo set and any configured ceiling from 1.0 *)
(* up (in steps of 0.5).                                                    *)
Ceilings == {50 * k : k \in 2..MaxCeiling}

InitSurge ==
    /\ drivers = [d \in 1..MaxSupply |-> "available"]
    /\ rowLock = [d \in 1..MaxSupply |-> None]
    /\ rides = <<>>
    /\ trips = <<>>
    /\ payments = <<>>
    /\ \E supply \in 0..MaxSupply :
           /\ geo = 1..supply
           /\ tierKey = 1..supply
    /\ locks = [d \in 1..MaxSupply |-> None]
    /\ idem = [k \in Keys |-> NoEntry]
    /\ demand \in 0..MaxDemand
    /\ psp = <<>>
    /\ matcher = [m \in Matchers |-> IdleMatcher]
    /\ out = NoOut
    /\ Requests([creates |-> 1, ends |-> 0, pays |-> 0])
    /\ observe = FALSE
    /\ \E ceiling \in Ceilings : settings = Settings(ceiling)
    /\ cache = {}
    /\ greq = [g \in GetIds |-> IdleGet]
    /\ loc = geo

NextSurge ==
    \/ \E k \in Keys \cup {None} : create_ride_check(k)
    \/ \E c \in CreateIds : create_ride_insert(c)

SpecSurge == InitSurge /\ [][NextSurge]_vars

(* MatchDrivers drivers have pinged and some have gone offline again; rides *)
(* are requested and matched or cancelled, the drivers send accept requests *)
(* and a trip is ended; the responses are recorded.                         *)
InitAccept ==
    /\ \E online \in SUBSET (1..MatchDrivers) :
           drivers = [d \in 1..MatchDrivers |-> IF d \in online THEN "available" ELSE "offline"]
    /\ rowLock = [d \in 1..MatchDrivers |-> None]
    /\ rides = <<>>
    /\ trips = <<>>
    /\ payments = <<>>
    /\ geo = 1..MatchDrivers
    /\ tierKey = 1..MatchDrivers
    /\ locks = [d \in 1..MatchDrivers |-> None]
    /\ idem = [k \in Keys |-> NoEntry]
    /\ demand = 0
    /\ psp = <<>>
    /\ matcher = [m \in Matchers |-> IdleMatcher]
    /\ out = NoOut
    /\ Requests([creates |-> MaxCreates, ends |-> 1, pays |-> 0])
    /\ observe = TRUE
    /\ settings = Settings(max_surge_multiplier)
    /\ cache = {}
    /\ greq = [g \in GetIds |-> IdleGet]
    /\ loc = geo

NextAccept ==
    \/ NextMatching
    \/ \E d \in Drivers, r \in RideIds : accept_ride(d, r)
    \/ \E t \in TripIds : end_trip_select_trip(t)
    \/ \E e \in EndIds : end_trip_select_ride(e)
    \/ \E e \in EndIds, dist \in Distances : end_trip_commit(e, dist)

SpecAccept == InitAccept /\ [][NextAccept]_vars

(* NearDrivers standard and PremiumDrivers premium drivers have pinged, the *)
(* nearest standard ones have gone offline again, and one ride of either    *)
(* tier is requested.                                                       *)
InitNearby ==
    /\ \E k \in 0..NearDrivers :
           drivers = [d \in 1..(NearDrivers + PremiumDrivers) |->
                         IF d <= k THEN "offline" ELSE "available"]
    /\ rowLock = [d \in 1..(NearDrivers + PremiumDrivers) |-> None]
    /\ rides = <<>>
    /\ trips = <<>>
    /\ payments = <<>>
    /\ geo = 1..(NearDrivers + PremiumDrivers)
    /\ tierKey = geo
    /\ locks = [d \in 1..(NearDrivers + PremiumDrivers) |-> None]
    /\ idem = [k \in Keys |-> NoEntry]
    /\ demand = 0
    /\ psp = <<>>
    /\ matcher = [m \in Matchers |-> IdleMatcher]
    /\ out = NoOut
    /\ Requests([creates |-> 1, ends |-> 0, pays |-> 0])
    /\ observe = FALSE
    /\ settings = Settings(max_surge_multiplier)
    /\ cache = {}
    /\ greq = [g \in GetIds |-> IdleGet]
    /\ loc = geo

NextNearby ==
    \/ \E tier \in {"standard", "premium"} : create_ride_request(None, tier, 10000)
    \/ \E c \in CreateIds : create_ride_insert(c)
    \/ \E c \in CreateIds : create_ride_spawn(c)
    \/ \E m \in Matchers : run_matching_candidates(m)
    \/ \E m \in Matchers : run_matching_lock(m)
    \/ \E m \in Matchers : run_matching_verify(m)
    \/ \E m \in Matchers : assign_driver_lock_driver(m)
    \/ \E m \in Matchers : assign_driver_commit(m)
    \/ \E m \in Matchers : cancel_ride(m)

SpecNearby == InitNearby /\ [][NextNearby]_vars

(* Ride requests and their matching tasks while drivers ping and stop       *)
(* pinging                                                                  *)
NextStale ==
    \/ NextMatching
    \/ \E d \in Drivers : update_location(d)
    \/ \E d \in Drivers : LocExpire(d)

SpecStale == InitIndexed /\ [][NextStale]_vars

(* One ride is requested, matched or cancelled, accepted, ended and paid     *)
(* while riders poll GET /v1/rides/{id}; the responses are recorded.        *)
InitCache ==
    /\ Registered(NumDrivers)
    /\ Requests([creates |-> 1, ends |-> 1, pays |-> 1])
    /\ observe = TRUE
    /\ settings = Settings(max_surge_multiplier)
    /\ cache = {}
    /\ greq = [g \in GetIds |-> IdleGet]
    /\ loc = geo

NextCache ==
    \/ Next
    \/ \E r \in 1..MaxCreates : get_ride_cache(r)
    \/ \E g \in GetIds : get_ride_select(g)
    \/ \E g \in GetIds : get_ride_set(g)
    \/ \E r \in RideIds : CacheExpire(r)

SpecCache == InitCache /\ [][NextCache]_vars

(* One ride of any tier and of a few metres is requested under the default  *)
(* ceiling                                                                  *)
EstimateDistances == {50 * k : k \in 0..MaxEstimateDist}
InitEstimate ==
    /\ InitSurge
    /\ settings = Settings(max_surge_multiplier)

NextEstimate ==
    \/ \E tier \in Tiers, distance_km \in EstimateDistances :
           create_ride_request(None, tier, distance_km)
    \/ \E c \in CreateIds : create_ride_insert(c)

SpecEstimate == InitEstimate /\ [][NextEstimate]_vars

(* One trip of any tier, surge and length is ended *)
NextFare ==
    \/ \E t \in TripIds : end_trip_select_trip(t)
    \/ \E e \in EndIds : end_trip_select_ride(e)
    \/ \E e \in EndIds, dist \in FareDistances : end_trip_commit(e, dist)

SpecFare == InitFare /\ [][NextFare]_vars

(* ------------------------------- claims ------------------------------- *)
TripsOfDriver(d) == {t \in TripIds : trips[t].driver_id = d}
MatchedWith(d) == {r \in RideIds : rides[r].status = "MATCHED" /\ rides[r].driver_id = d}

(* C1: while matching tasks for distinct rides run concurrently and nothing *)
(* else changes a driver's status, a driver has at most one ride MATCHED    *)
(* with it and at most one trip.                                            *)
AtMostOnceAssignment ==
    \A d \in Drivers : Cardinality(MatchedWith(d)) <= 1 /\ Cardinality(TripsOfDriver(d)) <= 1

(* A matcher has taken the Redis lock of a driver and read it as available, *)
(* and meanwhile another ride was committed MATCHED with that driver.       *)
TwoMatchersOneDriver ==
    \E m \in Matchers :
        /\ matcher[m].pc = "assign"
        /\ MatchedWith(matcher[m].cands[matcher[m].idx]) \ {matcher[m].ride} # {}

(* C2: a ride never has more than one trip row, and no step changes a       *)
(* driver_id that is set, also with several matchers on the same ride.      *)
OneTripPerRide == \A r \in RideIds : Cardinality(TripsOfRide(r)) <= 1
DriverIdKept ==
    \A r \in RideIds : rides[r].driver_id # None => rides'[r].driver_id = rides[r].driver_id
NoRideTwoDrivers == []OneTripPerRide /\ [][DriverIdKept]_vars

(* A matcher holds another driver's row for a ride that a second matcher    *)
(* has already committed.                                                   *)
LateMatcher ==
    \E m \in Matchers :
        /\ matcher[m].pc = "assign_ride"
        /\ rides[matcher[m].ride].status = "MATCHED"
        /\ rides[matcher[m].ride].driver_id # matcher[m].cands[matcher[m].idx]

(* C3: no two rides that are neither COMPLETED nor CANCELLED carry the same *)
(* driver_id.                                                               *)
OpenRidesOf(d) ==
    {r \in RideIds : rides[r].driver_id = d /\ rides[r].status \notin {"COMPLETED", "CANCELLED"}}
NoDriverTwoOpenRides == \A d \in Drivers : Cardinality(OpenRidesOf(d)) <= 1

(* C4: every change of a ride's status is an edge of the transition graph.  *)
PermittedTransitions ==
    {<<"REQUESTED", "MATCHED">>, <<"REQUESTED", "CANCELLED">>,
     <<"MATCHED", "DRIVER_EN_ROUTE">>, <<"MATCHED", "CANCELLED">>,
     <<"DRIVER_EN_ROUTE", "TRIP_STARTED">>, <<"DRIVER_EN_ROUTE", "CANCELLED">>,
     <<"TRIP_STARTED", "TRIP_PAUSED">>, <<"TRIP_STARTED", "TRIP_ENDED">>,
     <<"TRIP_PAUSED", "TRIP_STARTED">>,
     <<"TRIP_ENDED", "PAYMENT_PENDING">>,
     <<"PAYMENT_PENDING", "COMPLETED">>, <<"PAYMENT_PENDING", "PAYMENT_FAILED">>,
     <<"PAYMENT_FAILED", "PAYMENT_PENDING">>}
StatusChangeIsEdge ==
    \A r \in RideIds :
        rides'[r].status # rides[r].status =>
            <<rides[r].status, rides'[r].status>> \in PermittedTransitions
OnlyPermittedTransitions == [][StatusChangeIsEdge]_vars

(* C5: once a matcher's _assign_driver has found the ride no longer         *)
(* REQUESTED (it returned False at the ride select, so the matcher still    *)
(* holds the driver row it had locked) and the ride is MATCHED, no step     *)
(* changes the ride or gives it a trip, and when the matcher returns it     *)
(* holds no driver row and no driver's Redis lock.                          *)
Observed(m) ==
    /\ matcher[m].pc \notin {"idle", "assign_ride"}
    /\ \E d \in Drivers : rowLock[d] = m
    /\ rides[matcher[m].ride].status = "MATCHED"
LoserStep(m) ==
    LET r == matcher[m].ride
    IN  Observed(m) =>
            /\ rides'[r] = rides[r]
            /\ \A t \in 1..Len(trips') : trips'[t].ride_id = r => t \in TripsOfRide(r)
            /\ matcher'[m].pc = "idle" =>
                   \A d \in Drivers :
                       /\ rowLock'[d] # m
                       /\ locks'[d] = r => d = rides[r].driver_id
LoserAborts == [][\A m \in Matchers : LoserStep(m)]_vars

(* C6: no step changes the status of a ride that is COMPLETED or CANCELLED. *)
TerminalStatusKept ==
    \A r \in RideIds :
        rides[r].status \in {"COMPLETED", "CANCELLED"} => rides'[r].status = rides[r].status
TerminalStatesStay == [][TerminalStatusKept]_vars

(* C7: a request that finds its target in the wrong state is answered 409   *)
(* and changes no ride, driver, trip or payment row: accept_ride for a ride *)
(* that is not MATCHED or not this driver's, end_trip reading a COMPLETED   *)
(* trip, create_payment loading a trip that is not COMPLETED.  A payment    *)
(* request whose key has a stored response is answered with that response   *)
(* (whatever the trip's state), and changes no row either.                  *)
Rejected ==
    /\ out'.code = 409
    /\ UNCHANGED <<rides, drivers, trips, payments, loc>>
AcceptWrongState ==
    \A d \in Drivers, r \in RideIds :
        ((rides[r].status # "MATCHED" \/ rides[r].driver_id # d) /\ accept_ride(d, r))
            => Rejected
EndWrongState ==
    \A t \in TripIds :
        (trips[t].status = "COMPLETED" /\ end_trip_select_trip(t)) => Rejected
PayWrongState ==
    \A p \in PayIds, t \in TripIds, a \in Amounts :
        (trips[t].status # "COMPLETED" /\ create_payment_load(p, t, a)) => Rejected
PayReplay ==
    \A k \in Keys :
        (idem[k] # NoEntry /\ create_payment_check(k)) =>
            /\ out'.replay
            /\ out'.code = idem[k].status_code
            /\ UNCHANGED <<rides, drivers, trips, payments>>
PayAnsweredWrongState ==
    \A k \in Keys \cup {None} :
        ((\E t \in TripIds : trips[t].status # "COMPLETED")
            /\ create_payment_check(k) /\ out' # NoOut) => Rejected
OnePaymentPerCompletedTrip ==
    \A t \in TripIds : trips[t].status = "COMPLETED" => Cardinality(PaymentsOfTrip(t)) = 1

(* C9: the provider, for which the calls with one key are one charge,       *)
(* accepts at most one charge per trip, and no charge is made for a payment *)
(* that is SUCCESS.                                                         *)
ChargesOf(t) == {psp[i].key : i \in {j \in 1..Len(psp) : psp[j].trip = t}}
ChargedAtMostOnce == \A t \in TripIds : Cardinality(ChargesOf(t)) <= 1
NoChargeAfterSuccess ==
    psp' # psp => payments[psp'[Len(psp')].payment].status # "SUCCESS"
BilledOnce == []ChargedAtMostOnce /\ [][NoChargeAfterSuccess]_vars

(* C10: a ride-create request whose key has the stored response of a ride   *)
(* creation is answered with the stored status and body, marked as a        *)
(* replay; it inserts no ride, does not increment the demand counter and    *)
(* starts no matching task.                                                 *)
StoredRide(k) == idem[k] # NoEntry /\ "id" \in DOMAIN json_loads(idem[k].body)
RideReplayStep ==
    \A k \in Keys :
        (StoredRide(k) /\ create_ride_check(k)) =>
            /\ out'.replay
            /\ out'.code = idem[k].status_code
            /\ out'.body = RideBody(json_loads(idem[k].body).id)
            /\ UNCHANGED <<rides, demand, matcher, creq, idem>>
RideReplay == [][RideReplayStep]_vars

(* A ride creation was replayed after the first call had created the ride *)
RideReplayed ==
    /\ out.replay
    /\ out.op = "create_ride"
    /\ \E r \in RideIds : rides[r].idempotency_key # None /\ out.body = RideBody(r)

(* C11: a payment call that charged and returned SUCCESS under key K leaves *)
(* its body stored under K, and a payment call with a key whose stored      *)
(* response is a SUCCESS payment is answered with the stored status and     *)
(* body, marked as a replay: no provider call is made and no payment or     *)
(* ride row changes.                                                        *)
StoredPayment(k) ==
    /\ idem[k] # NoEntry
    /\ "payment_id" \in DOMAIN json_loads(idem[k].body)
    /\ json_loads(idem[k].body).status = "SUCCESS"
Remembered(k) ==
    /\ idem'[k] # NoEntry
    /\ json_loads(idem'[k].body) = out'.body
ChargedCallStored ==
    \A p \in PayIds :
        (create_payment_store(p) /\ out'.body.status = "SUCCESS") => Remembered(preq[p].key)
PaymentReplayStep ==
    \A k \in Keys :
        (StoredPayment(k) /\ create_payment_check(k)) =>
            /\ out'.replay
            /\ out'.code = idem[k].status_code
            /\ out'.body = json_loads(idem[k].body)
            /\ UNCHANGED <<payments, rides, psp, preq, idem>>
AnyCallStored ==
    \A p \in PayIds, t \in TripIds, a \in Amounts :
        (create_payment_load(p, t, a) /\ preq[p].key # None /\ out'.code = 200)
            => Remembered(preq[p].key)
Tampered(t, a) ==
    /\ trips[t].status = "COMPLETED"
    /\ \E q \in PaymentsOfTrip(t) : PaymentsOfTrip(t) = {q} /\ payments[q].status # "SUCCESS"
    /\ (a - trips[t].total_fare > 1 \/ trips[t].total_fare - a > 1)
TamperRefused ==
    \A p \in PayIds, t \in TripIds, a \in Amounts :
        (Tampered(t, a) /\ create_payment_load(p, t, a)) =>
            /\ out'.code = 400
            /\ preq'[p] = DonePay
            /\ UNCHANGED <<payments, rides, psp>>
ServerAmountKept ==
    \A p \in PayIds, t \in TripIds, a \in Amounts :
        (create_payment_load(p, t, a) /\ preq'[p].pc = "charge") =>
            preq'[p].server_amount = trips[t].total_fare
ServerAmountCharged ==
    \A p \in PayIds :
        (create_payment_charge(p, TRUE) /\ Len(psp') > Len(psp)) =>
            psp'[Len(psp')].amount = preq[p].server_amount
GeoMembersAvailable == \A d \in geo : drivers[d] = "available"

(* C14: a driver whose status is on_trip has exactly one trip that is not   *)
(* COMPLETED, and the driver of a ride that is MATCHED, DRIVER_EN_ROUTE or  *)
(* IN_PROGRESS has exactly one such trip, the trip of that ride.            *)
OpenTripsOf(d) == {t \in TripIds : trips[t].driver_id = d /\ trips[t].status # "COMPLETED"}
OnTripHasOneTrip == \A d \in Drivers : drivers[d] = "on_trip" => Cardinality(OpenTripsOf(d)) = 1
CurrentTripUnique ==
    \A r \in RideIds :
        (rides[r].driver_id # None /\ rides[r].status \in {"MATCHED", "DRIVER_EN_ROUTE", "IN_PROGRESS"})
            => \E t \in TripIds : OpenTripsOf(rides[r].driver_id) = {t} /\ trips[t].ride_id = r
OneCurrentTrip == OnTripHasOneTrip /\ CurrentTripUnique

(* C15: a ride carries a driver_id exactly when its status is past          *)
(* REQUESTED and is not CANCELLED.                                          *)
DriverIdIffMatched ==
    \A r \in RideIds :
        rides[r].driver_id # None <=> rides[r].status \notin {"REQUESTED", "CANCELLED"}

(* One ride was cancelled by its matching task and another one was matched, *)
(* ended and paid                                                           *)
CancelledAndCompleted ==
    \E r, q \in RideIds :
        /\ rides[r].status = "CANCELLED"
        /\ rides[q].status = "COMPLETED"

(* C16: a ride has a trip row exactly when its status is past REQUESTED and *)
(* is not CANCELLED (a cancelled ride was never matched), and the step that *)
(* makes a ride MATCHED also inserts its trip and puts its driver on_trip.  *)
TripIffMatched ==
    \A r \in RideIds :
        TripsOfRide(r) # {} <=> rides[r].status \notin {"REQUESTED", "CANCELLED"}
MatchedTogether ==
    \A r \in RideIds :
        (rides[r].status = "REQUESTED" /\ rides'[r].status = "MATCHED") =>
            /\ drivers'[rides'[r].driver_id] = "on_trip"
            /\ \E t \in 1..Len(trips') :
                   /\ t \notin TripIds
                   /\ trips'[t].ride_id = r
                   /\ trips'[t].driver_id = rides'[r].driver_id
TripWithMatch == []TripIffMatched /\ [][MatchedTogether]_vars

(* A ride is MATCHED with its trip ACTIVE while another ride, cancelled by  *)
(* its matching task, has none                                              *)
MatchedAndCancelled ==
    \E r, q \in RideIds :
        /\ rides[r].status = "MATCHED"
        /\ \E t \in TripsOfRide(r) : trips[t].status = "ACTIVE"
        /\ rides[q].status = "CANCELLED"
        /\ TripsOfRide(q) = {}

(* C17: a payment with status SUCCESS has a provider reference, and a       *)
(* payment that is PENDING or FAILED has none.                              *)
SuccessHasRef == \A q \in PaymentIds : payments[q].status = "SUCCESS" => payments[q].psp_ref # None
UnpaidHasNoRef ==
    \A q \in PaymentIds : payments[q].status \in {"PENDING", "FAILED"} => payments[q].psp_ref = None
RefIffSuccess == SuccessHasRef /\ UnpaidHasNoRef

(* C18: a trip that is not COMPLETED has no fare, and a COMPLETED trip has  *)
(* a base_fare, a surge_fare and a total_fare with                          *)
(* total_fare = base_fare + surge_fare.                                     *)
FareFields(t) == {trips[t].base_fare, trips[t].surge_fare, trips[t].total_fare}
FaresNullUntilEnd ==
    \A t \in TripIds : trips[t].status # "COMPLETED" => FareFields(t) = {NoFare}
FaresSetAtEnd ==
    \A t \in TripIds : trips[t].status = "COMPLETED" => NoFare \notin FareFields(t)
TotalIsSum ==
    \A t \in TripIds :
        trips[t].status = "COMPLETED" => trips[t].total_fare = trips[t].base_fare + trips[t].surge_fare
FareAddsUp == FaresNullUntilEnd /\ FaresSetAtEnd /\ TotalIsSum

(* C19: every matching task comes to an end with its ride MATCHED or        *)
(* CANCELLED; a task that finds no candidates cancels the ride, a task that *)
(* has gone through all its candidates cancels it, a task that ends         *)
(* otherwise has matched it, and a task never cancels a ride that is        *)
(* MATCHED.                                                                 *)
TaskOf(m, r) == matcher[m].pc # "idle" /\ matcher[m].ride = r
TaskEnds ==
    \A m \in Matchers, r \in CreateIds :
        TaskOf(m, r) ~> (matcher[m].pc = "idle" /\ r \in RideIds
                         /\ rides[r].status \in {"MATCHED", "CANCELLED"})
NoCandidatesStep ==
    \A m \in Matchers :
        (geo = {} /\ run_matching_candidates(m)) => matcher'[m].pc = "cancel"
TaskEndStep ==
    \A m \in Matchers, r \in RideIds :
        (TaskOf(m, r) /\ matcher'[m].pc = "idle") =>
            /\ rides[r].status = "REQUESTED"
            /\ IF matcher[m].pc = "cancel"
                 THEN rides'[r].status = "CANCELLED" /\ rides'[r].driver_id = None
                 ELSE rides'[r].status = "MATCHED" /\ matcher[m].idx \in 1..Len(matcher[m].cands)
CancelOnlyWhenExhausted ==
    \A m \in Matchers :
        (matcher[m].pc # "cancel" /\ matcher'[m].pc = "cancel") =>
            \/ /\ matcher[m].pc = "geo"
               /\ geo_nearby_drivers(rides[matcher[m].ride].tier,
                                     matching_max_retries * 5) = <<>>
            \/ matcher[m].idx = Len(matcher[m].cands)
MatchingTaskEnds ==
    /\ TaskEnds
    /\ [][NoCandidatesStep /\ TaskEndStep /\ CancelOnlyWhenExhausted]_vars

(* All tasks are over: one found the geo set empty or no driver to assign   *)
(* and cancelled its ride, another matched its ride                         *)
TasksOver ==
    /\ \A m \in Matchers : matcher[m].pc = "idle"
    /\ \E r, q \in RideIds : rides[r].status = "CANCELLED" /\ rides[q].status = "MATCHED"

(* C20: a payment request that finds the payment FAILED and the ride        *)
(* PAYMENT_FAILED, passes the amount check and is charged by the provider   *)
(* leaves the payment SUCCESS with the provider's reference and the ride    *)
(* COMPLETED.                                                               *)
RetryCharged(p) ==
    /\ preq[p].pc = "commit"
    /\ preq[p].loaded.status = "FAILED"
    /\ preq[p].psp_result.status = "SUCCESS"
RetryStep ==
    \A p \in PayIds :
        (RetryCharged(p) /\ create_payment_commit(p)) =>
            /\ payments'[preq[p].payment].status = "SUCCESS"
            /\ payments'[preq[p].payment].psp_ref = preq[p].psp_result.psp_ref
            /\ rides'[trips[preq[p].trip].ride_id].status = "COMPLETED"
FailedLoadedStep ==
    \A p \in PayIds, t \in TripIds, a \in Amounts :
        (create_payment_load(p, t, a) /\ preq'[p].pc = "charge" /\ a = trips[t].total_fare
         /\ rides[trips[t].ride_id].status = "PAYMENT_FAILED") =>
            /\ preq'[p].loaded.status = "FAILED"
            /\ preq'[p].server_amount = a
PaymentFailedRetriable == [][FailedLoadedStep /\ RetryStep]_vars

(* A retry has paid a payment it had loaded as FAILED *)
RetryPaid ==
    \E p \in PayIds :
        /\ preq[p].pc = "store"
        /\ preq[p].loaded.status = "FAILED"
        /\ payments[preq[p].payment].status = "SUCCESS"
        /\ rides[trips[preq[p].trip].ride_id].status = "COMPLETED"

(* C21: charge makes at most three provider calls.  A call that succeeds    *)
(* ends it with SUCCESS and that call's reference; a call that fails is     *)
(* followed by the next attempt, and the third failure ends it with FAILED  *)
(* and no reference.  After two failures and a success the payment is       *)
(* SUCCESS and the ride COMPLETED.                                          *)
AttemptsBounded ==
    \A p \in PayIds : preq[p].pc = "charge" => preq[p].attempt \in 1..3
ChargeSucceeds ==
    \A p \in PayIds :
        (preq[p].server_amount > 0 /\ create_payment_charge(p, TRUE)) =>
            /\ preq'[p].pc = "commit"
            /\ preq'[p].psp_result = [status |-> "SUCCESS", psp_ref |-> Len(psp')]
            /\ Len(psp') = Len(psp) + 1
ChargeFails ==
    \A p \in PayIds :
        create_payment_charge(p, FALSE) =>
            /\ psp' = psp
            /\ IF preq[p].attempt = 3
                 THEN /\ preq'[p].pc = "commit"
                      /\ preq'[p].psp_result = [status |-> "FAILED", psp_ref |-> None]
                 ELSE /\ preq'[p].pc = "charge"
                      /\ preq'[p].attempt = preq[p].attempt + 1
FlapCommitted ==
    \A p \in PayIds :
        (preq[p].attempt = 3 /\ preq[p].psp_result.status = "SUCCESS"
         /\ create_payment_commit(p)) =>
            /\ payments'[preq[p].payment].status = "SUCCESS"
            /\ rides'[trips[preq[p].trip].ride_id].status = "COMPLETED"
ChargeTerminates ==
    /\ []AttemptsBounded
    /\ [][ChargeSucceeds /\ ChargeFails /\ FlapCommitted]_vars

(* The provider failed twice and succeeded on the third attempt *)
ProviderFlap ==
    \E p \in PayIds :
        /\ preq[p].pc = "store"
        /\ preq[p].attempt = 3
        /\ preq[p].psp_result.status = "SUCCESS"
        /\ payments[preq[p].payment].status = "SUCCESS"
        /\ rides[trips[preq[p].trip].ride_id].status = "COMPLETED"

(* C22: a charge for an amount that is not positive ends with its first     *)
(* call, with the outcome INVALID: there is no second attempt and no FAILED *)
(* result.                                                                  *)
ChargeStep(p) == create_payment_charge(p, TRUE) \/ create_payment_charge(p, FALSE)
NonPositiveStep ==
    \A p \in PayIds :
        (preq[p].server_amount <= 0 /\ ChargeStep(p)) =>
            /\ preq'[p].pc # "charge"
            /\ preq'[p].psp_result.status = "INVALID"
NonPositiveInvalid == [][NonPositiveStep]_vars

(* C23: the demand counter is the number of REQUESTED rides whose request   *)
(* has passed increment_demand, and the step that takes a ride from         *)
(* REQUESTED to MATCHED or CANCELLED takes one off the counter.             *)
Counted == {r \in RideIds : rides[r].status = "REQUESTED"
                            /\ \A c \in CreateIds : ~(creq[c].pc = "incr" /\ creq[c].ride = r)}
DemandIsRequested == demand = Cardinality(Counted)
DemandReturns ==
    \A r \in RideIds :
        (rides[r].status = "REQUESTED" /\ rides'[r].status \in {"MATCHED", "CANCELLED"})
            => demand' = demand - 1
DemandCountsRequested == []DemandIsRequested /\ [][DemandReturns]_vars

(* C24: the multiplier of a created ride is the piecewise mapping of        *)
(* ratio = demand / max(supply, 1): 1.0 below 0.5, 1.5 below 1.0, 2.0 below *)
(* 2.0, 3.0 below 3.0, and from 3.0 on min(ratio, ceiling) rounded to two   *)
(* decimals.                                                                *)
Supply == IF Cardinality(geo) > 1 THEN Cardinality(geo) ELSE 1
Ceiling == settings.max_surge_multiplier
Band(m) ==
    /\ 2 * demand < Supply => m = 100
    /\ (Supply <= 2 * demand /\ demand < Supply) => m = 150
    /\ (Supply <= demand /\ demand < 2 * Supply) => m = 200
    /\ (2 * Supply <= demand /\ demand < 3 * Supply) => m = 300
    /\ (3 * Supply <= demand /\ 100 * demand >= Ceiling * Supply) => m = Ceiling
NearestHundredth(m) ==
    (3 * Supply <= demand /\ 100 * demand < Ceiling * Supply) =>
        /\ 2 * (m * Supply - 100 * demand) <= Supply
        /\ 2 * (100 * demand - m * Supply) <= Supply
SurgeMapping ==
    \A r \in RideIds : Band(rides[r].surge_multiplier) /\ NearestHundredth(rides[r].surge_multiplier)

(* A ride was created at ratio 10 / 3 with multiplier 3.33, and the geo set *)
(* can be empty with demand counted                                         *)
SurgeRounded ==
    /\ demand = 10
    /\ Cardinality(geo) = 3
    /\ Ceiling = 500
    /\ \E r \in RideIds : rides[r].surge_multiplier = 333

(* C24 as stated: from ratio 3.0 on the multiplier is min(ratio, ceiling)   *)
(* itself.                                                                  *)
ExactRatio(m) ==
    (3 * Supply <= demand /\ 100 * demand < Ceiling * Supply) => m * Supply = 100 * demand
SurgeMappingExact ==
    \A r \in RideIds : Band(rides[r].surge_multiplier) /\ ExactRatio(rides[r].surge_multiplier)

(* C25: with a configured ceiling of at least 3.0 the multiplier of every   *)
(* ride is at least 1.0 and at most the ceiling, however large the ratio.   *)
WithinCeiling ==
    \A r \in RideIds : rides[r].surge_multiplier >= 100 /\ rides[r].surge_multiplier <= Ceiling
FeeOf(tier) == IF tier = "premium" THEN 60 ELSE IF tier = "xl" THEN 80 ELSE 30
RateOf(tier) == IF tier = "premium" THEN 15 ELSE IF tier = "xl" THEN 20 ELSE 10
Unrounded(tier, dist) == 1000000 * FeeOf(tier) + 100 * RateOf(tier) * dist
RoundedTo(paise, value) ==
    /\ 10000 * paise - value <= 5000
    /\ value - 10000 * paise <= 5000
NoSurgeFareStep ==
    \A e \in EndIds, dist \in FareDistances :
        (/\ ereq[e].pc = "commit"
         /\ rides[trips[ereq[e].trip].ride_id].surge_multiplier = 100
         /\ end_trip_commit(e, dist)) =>
            LET t == ereq[e].trip
                tier == rides[trips[t].ride_id].tier
            IN  /\ trips'[t].surge_fare = 0
                /\ trips'[t].total_fare = trips'[t].base_fare
                /\ RoundedTo(trips'[t].total_fare, Unrounded(tier, dist))
                /\ dist = 0 => trips'[t].total_fare = 100 * FeeOf(tier)
NoSurgeFare == [][NoSurgeFareStep]_vars

(* A trip of a ride of no known tier ended at multiplier 1.0 after 0.0008   *)
(* km with the standard fare 30.01                                          *)
OtherTierFare ==
    \E t \in TripIds :
        /\ trips[t].status = "COMPLETED"
        /\ rides[trips[t].ride_id].tier = "other"
        /\ rides[trips[t].ride_id].surge_multiplier = 100
        /\ trips[t].total_fare = 3001
        /\ trips[t].surge_fare = 0

(* C27: the window estimated for a ride request contains every fare that    *)
(* calculate_fare gives for the request's tier and distance and the ride's  *)
(* multiplier, and its min and max are 0.9 and 1.1 times that fare rounded  *)
(* to two decimals.                                                         *)
Estimated == {c \in CreateIds : creq[c].estimated_fare # NoEstimate}
NearestPaise(paise, tenths) ==
    /\ 10 * paise - tenths <= 5
    /\ tenths - 10 * paise <= 5
MultiplierKept ==
    \A r \in RideIds : rides'[r].surge_multiplier = rides[r].surge_multiplier
FareAtCaptured ==
    \A e \in EndIds, dist \in Distances :
        (ereq[e].pc = "commit" /\ end_trip_commit(e, dist)) =>
            LET t == ereq[e].trip
                r == trips[t].ride_id
            IN  \E f \in calculate_fare(rides[r].tier, dist, rides[r].surge_multiplier) :
                    /\ trips'[t].base_fare = f.base_fare
                    /\ trips'[t].surge_fare = f.surge_fare
                    /\ trips'[t].total_fare = f.total_fare
SurgeCaptured == [][MultiplierKept /\ FareAtCaptured]_vars

(* A trip was ended at multiplier 1.0, with fare 40.00 for its kilometre,   *)
(* when a ride requested now would get another multiplier                   *)
EndedAtOldSurge ==
    \E t \in TripIds :
        /\ trips[t].status = "COMPLETED"
        /\ rides[trips[t].ride_id].surge_multiplier = 100
        /\ trips[t].total_fare = 4000
        /\ 100 \notin compute_surge(demand, Cardinality(geo),
                                    settings.max_surge_multiplier)

(* C29: a driver's status changes only from offline to available, from      *)
(* available to offline or on_trip, and from on_trip to available; a status *)
(* request leaves a driver who is on_trip as they are, and the end of a     *)
(* trip changes the status only of a driver who is on_trip.                 *)
StatusEdges ==
    {<<"offline", "available">>, <<"available", "offline">>,
     <<"available", "on_trip">>, <<"on_trip", "available">>}
StatusRequestStep(d) ==
    \E s \in {"offline", "available"} : update_driver_status(d, s)
TripEndStep(d) ==
    \E e \in EndIds, dist \in Distances :
        /\ ereq[e].pc = "commit"
        /\ trips[ereq[e].trip].driver_id = d
        /\ end_trip_commit(e, dist)
StatusStep ==
    \A d \in Drivers :
        drivers'[d] # drivers[d] =>
            /\ <<drivers[d], drivers'[d]>> \in StatusEdges
            /\ StatusRequestStep(d) => drivers[d] # "on_trip"
            /\ TripEndStep(d) => drivers[d] = "on_trip"
DriverStatusTransitions == [][StatusStep]_vars

(* C30: for every driver at most one matching task is between its          *)
(* acquisition of the driver's lock and its release or assignment, and a    *)
(* matching task that deletes the lock key deletes a lock that holds its    *)
(* own ride.                                                                *)
Candidate(m) == matcher[m].cands[matcher[m].idx]
BelievesLocked(m, d) ==
    /\ matcher[m].pc \in {"get", "assign", "assign_ride"}
    /\ Candidate(m) = d
LockHolders(d) == {m \in Matchers : BelievesLocked(m, d)}
OneLockHolder == \A d \in Drivers : Cardinality(LockHolders(d)) <= 1
ReleasesOwnLock ==
    \A m \in Matchers, d \in Drivers :
        (/\ BelievesLocked(m, d)
         /\ run_matching_verify(m) \/ assign_driver_commit(m)
         /\ locks[d] # None
         /\ locks'[d] = None) => locks[d] = matcher[m].ride
DriverLockExclusive == []OneLockHolder /\ [][ReleasesOwnLock]_vars

(* C31: the status of a payment changes only from PENDING to SUCCESS, from  *)
(* PENDING to FAILED and from FAILED to PENDING: no step takes a payment    *)
(* from FAILED to SUCCESS or out of SUCCESS.                                *)
PaymentEdges ==
    {<<"PENDING", "SUCCESS">>, <<"PENDING", "FAILED">>, <<"FAILED", "PENDING">>}
PaymentStatusStep ==
    \A q \in 1..Len(payments) :
        payments'[q].status # payments[q].status =>
            <<payments[q].status, payments'[q].status>> \in PaymentEdges
PaymentStatusTransitions == [][PaymentStatusStep]_vars

(* C32: a GET of a ride that is answered from the cache returns the status  *)
(* the ride has in the record store: no transition of the ride has been     *)
(* committed since the status was cached.                                   *)
CacheHit(r) == CachedStatus(r) # {} /\ get_ride_cache(r)
CacheHitStep ==
    \A r \in RideIds : CacheHit(r) => out'.body.status = rides[r].status
CacheInvalidated == [][CacheHitStep]_vars

(* C33: a driver whose last ping is more than 30 s old (no live             *)
(* driver:{id}:loc) is not among the candidates a matching task gets from   *)
(* the geo index and is not assigned to a ride.                             *)
Seq2Set(q) == {q[i] : i \in 1..Len(q)}
FreshCandidates ==
    \A m \in Matchers :
        run_matching_candidates(m) => Seq2Set(matcher'[m].cands) \subseteq loc
FreshAssigned ==
    \A d \in Drivers :
        (drivers[d] # "on_trip" /\ drivers'[d] = "on_trip") => d \in loc
StaleUnroutable == [][FreshCandidates /\ FreshAssigned]_vars

(* C34: a driver lock that holds a ride id belongs to a matching task of    *)
(* that ride which is working on that driver, or to the ride's successful   *)
(* assignment to that driver: a task that has moved on from a driver or     *)
(* has ended in failure has left no lock behind.                            *)
LockInUse(d) ==
    \E m \in Matchers : matcher[m].ride = locks[d] /\ BelievesLocked(m, d)
LockOfAssignment(d) == rides[locks[d]].driver_id = d
FailureReleasesLock ==
    \A d \in Drivers : locks[d] # None => LockInUse(d) \/ LockOfAssignment(d)

(* C35: the candidates of a matching task are at most 15 drivers of the     *)
(* ride's tier within the radius, the nearest ones, in ascending distance;  *)
(* the task goes from a candidate to the next one only when the candidate   *)
(* failed the lock, the availability check or the assignment, and the       *)
(* driver a ride is matched to is the candidate the task is at.             *)
Eligible(tier) ==
    {d \in geo : DriverTier(d) = tier /\ Dist(d) <= 20}
NearestFirst(c, tier) ==
    /\ Len(c) <= 15
    /\ Seq2Set(c) \subseteq Eligible(tier)
    /\ \A i, j \in 1..Len(c) : i < j => c[i] # c[j] /\ Dist(c[i]) <= Dist(c[j])
    /\ \A d \in Eligible(tier) \ Seq2Set(c) :
           Len(c) = 15 /\ \A i \in 1..Len(c) : Dist(c[i]) <= Dist(d)
CandidatesStep ==
    \A m \in Matchers :
        run_matching_candidates(m) =>
            /\ NearestFirst(matcher'[m].cands, rides[matcher[m].ride].tier)
            /\ matcher'[m].pc = "cancel" \/ matcher'[m].idx = 1
CandidateFailed(m) ==
    LET d == Candidate(m)
    IN  \/ matcher[m].pc = "lock" /\ locks[d] # None
        \/ matcher[m].pc = "get" /\ drivers[d] # "available"
        \/ matcher[m].pc = "assign" /\ (drivers[d] # "available" \/ rowLock[d] \notin {None, m})
        \/ /\ matcher[m].pc = "assign_ride"
           /\ rides[matcher[m].ride].status # "REQUESTED" \/ TripsOfRide(matcher[m].ride) # {}
MovesOn(m) ==
    /\ matcher[m].pc \in {"lock", "get", "assign", "assign_ride"}
    /\ matcher'[m].ride = matcher[m].ride
    /\ matcher'[m].idx # matcher[m].idx \/ matcher'[m].pc = "cancel"
InOrderStep ==
    \A m \in Matchers :
        MovesOn(m) =>
            /\ CandidateFailed(m)
            /\ matcher'[m].cands = matcher[m].cands
            /\ IF matcher[m].idx < Len(matcher[m].cands)
                 THEN matcher'[m].idx = matcher[m].idx + 1 /\ matcher'[m].pc = "lock"
                 ELSE matcher'[m].pc = "cancel"
FirstPassingStep ==
    \A r \in RideIds :
        (rides[r].status = "REQUESTED" /\ rides'[r].status = "MATCHED") =>
            \E m \in Matchers :
                /\ matcher[m].ride = r
                /\ matcher[m].pc = "assign_ride"
                /\ ~CandidateFailed(m)
                /\ rides'[r].driver_id = Candidate(m)
                /\ Candidate(m) \in Eligible(rides[r].tier)
AcceptAnswer ==
    \A d \in Drivers, r \in RideIds :
        accept_ride(d, r) =>
            IF rides[r].status = "MATCHED" /\ rides[r].driver_id = d
            THEN /\ out'.code = 200
                 /\ out'.body.trip_id \in TripsOfRide(r)
                 /\ rides' = [rides EXCEPT ![r].status = "DRIVER_EN_ROUTE"]
            ELSE /\ out'.code = 409
                 /\ rides' = rides
MatchedOnce ==
    \A r \in RideIds :
        rides[r].status \notin {"REQUESTED", "MATCHED"} => rides'[r].status # "MATCHED"
AcceptLinearizable == [][AcceptAnswer /\ MatchedOnce]_vars

(* An accept was refused with 409 when both rides had already been accepted *)
(* by their drivers                                                         *)
SecondAcceptRefused ==
    /\ out.op = "accept_ride"
    /\ out.code = 409
    /\ Len(rides) = 2
    /\ \A r \in RideIds : rides[r].status = "DRIVER_EN_ROUTE" /\ rides[r].driver_id = r

(* C37: the step that ends a trip acts on a trip that is not yet COMPLETED  *)
(* and makes the trip COMPLETED with its fares, the ride PAYMENT_PENDING    *)
(* and the driver available and inserts one PENDING payment of the total    *)
(* fare; a trip that is COMPLETED has exactly one payment, of its total     *)
(* fare, and any other trip none.                                           *)
EndEffects(e) ==
    LET t == ereq[e].trip
        r == trips[t].ride_id
        d == trips[t].driver_id
    IN  /\ trips[t].status \in {"ACTIVE", "PAUSED"}
        /\ trips'[t].status = "COMPLETED"
        /\ trips'[t].total_fare # NoFare
        /\ rides'[r].status = "PAYMENT_PENDING"
        /\ drivers'[d] = "available"
        /\ Len(payments') = Len(payments) + 1
        /\ payments'[Len(payments')].trip_id = t
        /\ payments'[Len(payments')].status = "PENDING"
        /\ payments'[Len(payments')].amount = trips'[t].total_fare
EndTripStep ==
    \A e \in EndIds, dist \in Distances :
        (ereq[e].pc = "commit" /\ end_trip_commit(e, dist)) => EndEffects(e)
OnePaymentPerEnd ==
    \A t \in TripIds :
        IF trips[t].status = "COMPLETED"
        THEN /\ Cardinality(PaymentsOfTrip(t)) = 1
             /\ \A q \in PaymentsOfTrip(t) : payments[q].amount = trips[t].total_fare
        ELSE PaymentsOfTrip(t) = {}
EndTripOnce == []OnePaymentPerEnd /\ [][EndTripStep]_vars

(* C38: a ride is COMPLETED exactly when the payment of its trip is         *)
(* SUCCESS, and a ride that is PAYMENT_FAILED has a trip whose payment is   *)
(* FAILED.                                                                  *)
PaymentsOfRide(r) == UNION {PaymentsOfTrip(t) : t \in TripsOfRide(r)}
PaidRide(r) == \E q \in PaymentsOfRide(r) : payments[q].status = "SUCCESS"
RideFollowsPayment ==
    \A r \in RideIds :
        /\ rides[r].status = "COMPLETED" <=> PaidRide(r)
        /\ rides[r].status = "PAYMENT_FAILED" =>
               \E q \in PaymentsOfRide(r) : payments[q].status = "FAILED"

(* C39: a response replayed to a payment request is the stored response of  *)
(* a payment, and a response replayed to a ride request is the stored       *)
(* response of a ride creation.                                             *)
PaymentResponse(body) == "payment_id" \in DOMAIN body
RideResponse(body) == "id" \in DOMAIN body /\ ~PaymentResponse(body)
ReplaySameKind ==
    out.replay =>
        /\ out.op = "create_payment" => PaymentResponse(out.body)
        /\ out.op = "create_ride" => RideResponse(out.body)

(* C40: a payment request with a key under which a FAILED payment response  *)
(* is stored is not answered from the store: it goes on to load the trip    *)
(* and its payment and to charge again.                                     *)
StoredFailed(k) ==
    /\ idem[k] # NoEntry
    /\ PaymentResponse(json_loads(idem[k].body))
    /\ json_loads(idem[k].body).status = "FAILED"
FailedKeyRetryStep ==
    \A k \in Keys :
        (StoredFailed(k) /\ HasIdle(preq, PayIds) /\ create_payment_check(k)) =>
            preq'[FirstIdle(preq, PayIds)].pc = "load"
FailedKeyRetried == [][FailedKeyRetryStep]_vars

====
